---- MODULE Spec2Model ----
(***************************************************************************)
(* Trajectory integration of einsteinpy.metric.schwarzschild.Schwarzschild *)
(*                                                                         *)
(* One geometry instance, and the calls made on it:                        *)
(*   calculate_trajectory           (bulk mode,   lines 124-197)           *)
(*   calculate_trajectory_iterator  (streaming,   lines 199-270)           *)
(*                                                                         *)
(* Numbers.  Lengths are integers in thousandths of the length unit, so    *)
(* that 1.001 * r_s is exact.  The affine parameter lambda is an integer.  *)
(* Angles are counted in quarter turns, which keeps sine and cosine, and   *)
(* with them the spherical-to-Cartesian conversion, exact.                 *)
(*                                                                         *)
(* Arrays.  numpy arrays are objects: a list that appends ODE.y appends a  *)
(* reference, and RK45 is handed self.initial_vec itself.  The model keeps *)
(* a heap of arrays, and the geometry, the steppers and vec_list hold      *)
(* addresses into it.                                                      *)
(***************************************************************************)
EXTENDS Integers, Sequences, FiniteSets, TLC

VARIABLES
    M,                \* self.M
    schwarzschild_r,  \* self.schwarzschild_r
    initial_vec,      \* self.initial_vec: the address of the initial array
    units_list,       \* self.units_list (resolved through the class)
    heap,             \* address -> 8-component array
    path,             \* the results of the stepper's steps computed so far
    calls             \* the calls made on the geometry, in call order

vars == <<M, schwarzschild_r, initial_vec, units_list, heap, path, calls>>

(***************************************************************************)
(* Bounds                                                                  *)
(***************************************************************************)
MaxCalls == 2      \* calls made on the geometry in one behaviour
MaxSteps == 2      \* steps any one stepper takes

\* t_bound of the streaming stepper (1e300): beyond every lambda reached
StreamTBound == 1000000

Masses       == {1}
Radii        == {2002, 2003}
StartLambdas == {0, 1}
EndLambdas   == {0, 3}
StepSizes    == {2}

(***************************************************************************)
(* State vectors: <<t, r, theta, phi, dt, dr, dtheta, dphi>> (d/dlambda).   *)
(* Component i of the source (0-based) is component i+1 here.              *)
(***************************************************************************)
Sin(k) == CASE k % 4 = 0 -> 0 [] k % 4 = 1 -> 1 [] k % 4 = 2 -> 0 [] OTHER -> -1
Cos(k) == CASE k % 4 = 0 -> 1 [] k % 4 = 1 -> 0 [] k % 4 = 2 -> -1 [] OTHER -> 0

\* einsteinpy.utils.SphericalToCartesian_pos, on <<r, theta, phi>>
SphericalToCartesian_pos(p) ==
    << p[1] * Sin(p[2]) * Cos(p[3]),
       p[1] * Sin(p[2]) * Sin(p[3]),
       p[1] * Cos(p[2]) >>

\* einsteinpy.utils.SphericalToCartesian_vel, on <<r, theta, phi>> and
\* <<dr, dtheta, dphi>>
SphericalToCartesian_vel(p, v) ==
    << Sin(p[2]) * Cos(p[3]) * v[1] - p[1] * Sin(p[2]) * Sin(p[3]) * v[3]
           + p[1] * Cos(p[2]) * Cos(p[3]) * v[2],
       Sin(p[2]) * Sin(p[3]) * v[1] + p[1] * Cos(p[2]) * Sin(p[3]) * v[2]
           + p[1] * Sin(p[2]) * Cos(p[3]) * v[3],
       Cos(p[2]) * v[1] - p[1] * Sin(p[2]) * v[2] >>

\* S2C_vec with the slices taken one place too low (temp[0:3], temp[4:7]):
\* t and dt/dlambda are overwritten, phi and dphi are left spherical
S2C_vec_ShiftedSlice(y) ==
    LET pos == SphericalToCartesian_pos(<<y[2], y[3], y[4]>>)
        vel == SphericalToCartesian_vel(<<y[2], y[3], y[4]>>, <<y[6], y[7], y[8]>>)
    IN  <<pos[1], pos[2], pos[3], y[4], vel[1], vel[2], vel[3], y[8]>>

\* One state vector with its position and velocity converted; components 0
\* and 4 pass through (lines 244-246; one row of S2C_8dim, line 194).
S2C_vec(y) ==
    LET pos == SphericalToCartesian_pos(<<y[2], y[3], y[4]>>)
        vel == SphericalToCartesian_vel(<<y[2], y[3], y[4]>>, <<y[6], y[7], y[8]>>)
    IN  <<y[1], pos[1], pos[2], pos[3], y[5], vel[1], vel[2], vel[3]>>

\* einsteinpy.utils.S2C_8dim: every row converted
S2C_8dim(vs) == [i \in 1..Len(vs) |-> S2C_vec(vs[i])]

\* einsteinpy.utils.schwarzschild_radius: r_s = 2GM/c^2, in thousandths, with
\* the mass counted in units for which r_s = 2 M
schwarzschild_radius(m) == 2000 * m

\* np.hstack((time, pos_vec, time_vel, vel_vec)) at construction (lines 27-29):
\* on the equator at radius r0, dr = dtheta = 0, dphi = 1
InitialVec(r0) == <<0, r0, 1, 0, 1, 0, 0, 1>>

(***************************************************************************)
(* The stepper, einsteinpy.integrators.RK45 (scipy's RK45).  The geodesic  *)
(* field f_vec ignores its lambda argument (line 109), so what a step      *)
(* produces depends on the state it starts from and on the step length     *)
(* alone: the n-th step of every stepper started on this geometry gives    *)
(* the same result, unless t_bound shortens it.  path[n] keeps what has    *)
(* been computed of that step:                                             *)
(*   dt  the increment of lambda the step control chooses,                 *)
(*   at  for the step lengths h tried so far (dt, or less when t_bound     *)
(*       cut the step), the radius the step of length h reaches.           *)
(* The other components follow from the previous state.                    *)
(***************************************************************************)
\* What one call of step() may produce: the increment chosen and the radius
\* reached by the step as taken
StepResults == [dt : StepSizes, r : Radii]

NextVec(y, h, r) ==
    <<y[1] + h, r, y[3], (y[4] + y[8]) % 4, y[5], r - y[2], y[7], y[8]>>

\* RK45(fun, t0, y0, t_bound, ...): y is y0 itself (np.asarray does not copy)
RK45(t0, y0, t_bound) ==
    [t |-> t0, y |-> y0, t_bound |-> t_bound, n |-> 0, status |-> "running"]

\* The length of a step of increment dt: cut so as not to pass t_bound
StepLength(ode, dt) ==
    IF ode.t + dt > ode.t_bound THEN ode.t_bound - ode.t ELSE dt

\* ODE.step(): one adaptive step; the new state is a new array at address
\* addr (self.y = y_new), the old array is left as it was.  The result is
\* the stepper and the heap after the step.
RK45_step(ode, res, addr, hp) ==
    LET h    == StepLength(ode, res.dt)
        ynew == NextVec(hp[ode.y], h, res.r)
    IN  [ODE  |-> [ode EXCEPT !.t = ode.t + h,
                              !.y = addr,
                              !.n = ode.n + 1,
                              !.status = IF ode.t + h >= ode.t_bound
                                         THEN "finished" ELSE "running"],
         heap |-> hp @@ (addr :> ynew)]

\* The next step of stepper ode may produce res: what was computed of that
\* step for this geometry is produced again, the rest is open.
StepResultAt(ode, res) ==
    ode.n < Len(path) =>
        LET known == path[ode.n + 1]
            h     == StepLength(ode, res.dt)
        IN  /\ res.dt = known.dt
            /\ h \in DOMAIN known.at => res.r = known.at[h]

\* path, with the result res of the next step of stepper ode kept
PathAfter(ode, res) ==
    LET h == StepLength(ode, res.dt)
    IN  IF ode.n < Len(path)
        THEN [path EXCEPT ![ode.n + 1].at = (h :> res.r) @@ @]
        ELSE Append(path, [dt |-> res.dt, at |-> (h :> res.r)])

(***************************************************************************)
(* The calls.  calls[c] holds the locals of call c:                        *)
(*   kind                  "bulk" or "stream"                              *)
(*   start_lambda, end_lambda, stop_on_singularity, return_cartesian       *)
(*   ODE, singularity_reached, vec_list, lambda_list                       *)
(*   pc        bulk:   "loop", "break" (left by break), "returned"         *)
(*             stream: "created" (generator not started), "yielded"        *)
(*                     (suspended at a yield), "ended" (left by break)     *)
(*   warnings  the warnings raised: for each, the number of the step       *)
(*             whose result raised it                                      *)
(*   result    bulk: the returned pair <<lambdas, vectors>>                *)
(*   yielded   stream: the elements <<lambda, vector>> given to the        *)
(*             consumer so far                                             *)
(***************************************************************************)
Call(c) == calls[c]

\* _scr = self.schwarzschild_r.value * 1.001 (lines 165, 236)
Scr == (schwarzschild_r * 1001) \div 1000

\* The address of the array the n-th step of call c creates
Addr(c, n) == <<c, n>>

\* Python runs one call at a time: while a bulk call is in its loop nothing
\* else on the geometry runs.
Busy == \E c \in 1..Len(calls) : Call(c).kind = "bulk" /\ Call(c).pc \in {"loop", "break"}

\* calculate_trajectory up to its loop (lines 155-165)
BulkLocals(start, end, stop, cart) ==
    [kind                 |-> "bulk",
     start_lambda         |-> start,
     end_lambda           |-> end,
     stop_on_singularity  |-> stop,
     return_cartesian     |-> cart,
     ODE                  |-> RK45(start, initial_vec, end),
     singularity_reached  |-> FALSE,
     vec_list             |-> <<>>,
     lambda_list          |-> <<>>,
     pc                   |-> "loop",
     warnings             |-> <<>>,
     result               |-> <<>>,
     yielded              |-> <<>>]

\* The calls of one behaviour are calls one compares: they share
\* start_lambda and return_cartesian.
Comparable(start, cart) ==
    \A c \in 1..Len(calls) :
        Call(c).start_lambda = start /\ Call(c).return_cartesian = cart

\* calculate_trajectory is called: its locals are set up and its loop is
\* about to be entered
calculate_trajectory(start, end, stop, cart) ==
    /\ Len(calls) < MaxCalls
    /\ ~Busy
    /\ calls' = Append(calls, BulkLocals(start, end, stop, cart))
    /\ UNCHANGED <<M, schwarzschild_r, initial_vec, units_list, heap, path>>

CallBulk(start, end, stop, cart) ==
    /\ Comparable(start, cart)
    /\ calculate_trajectory(start, end, stop, cart)

\* BulkCheck without the latch: singularity_reached is never set
BulkCheck_NoLatch(k, r) ==
    IF (~k.singularity_reached) /\ (r <= Scr)
    THEN [k EXCEPT !.warnings = Append(@, k.ODE.n),
                   !.pc = IF k.stop_on_singularity THEN "break" ELSE @]
    ELSE k

\* BulkCheck without the break: stop_on_singularity is ignored
BulkCheck_NoBreak(k, r) ==
    IF (~k.singularity_reached) /\ (r <= Scr)
    THEN [k EXCEPT !.warnings = Append(@, k.ODE.n),
                   !.singularity_reached = TRUE]
    ELSE k

\* BulkCheck with the break taken whatever stop_on_singularity says
BulkCheck_AlwaysBreak(k, r) ==
    IF (~k.singularity_reached) /\ (r <= Scr)
    THEN [k EXCEPT !.warnings = Append(@, k.ODE.n),
                   !.pc = "break"]
    ELSE k

\* BulkCheck with < for <=: a radius of exactly 1.001 r_s passes unnoticed
BulkCheck_StrictlyBelow(k, r) ==
    IF (~k.singularity_reached) /\ (r < Scr)
    THEN [k EXCEPT !.warnings = Append(@, k.ODE.n),
                   !.pc = IF k.stop_on_singularity THEN "break" ELSE @,
                   !.singularity_reached = IF k.stop_on_singularity THEN @ ELSE TRUE]
    ELSE k

\* The singularity check after a step (lines 170-178), on the locals k with
\* the stepper already advanced, r the radius ODE.y[1] of the new state.
BulkCheck(k, r) ==
    IF (~k.singularity_reached) /\ (r <= Scr)
    THEN [k EXCEPT !.warnings = Append(@, k.ODE.n),
                   !.pc = IF k.stop_on_singularity THEN "break" ELSE @,
                   !.singularity_reached = IF k.stop_on_singularity THEN @ ELSE TRUE]
    ELSE k

\* BulkBody with lambda recorded after the check, so that a break skips it
BulkBody_LambdaAfterCheck(k, res, addr, hp) ==
    LET st == RK45_step(k.ODE, res, addr, hp)
        k1 == [k EXCEPT !.vec_list = Append(@, k.ODE.y),
                        !.ODE = st.ODE]
        k2 == BulkCheck(k1, st.heap[st.ODE.y][2])
    IN  [locals |-> IF k2.pc = "break" THEN k2
                    ELSE [k2 EXCEPT !.lambda_list = Append(@, k.ODE.t)],
         heap   |-> st.heap]

\* BulkBody with the point recorded after the step instead of before it
BulkBody_RecordAfterStep(k, res, addr, hp) ==
    LET st == RK45_step(k.ODE, res, addr, hp)
        k1 == [k EXCEPT !.vec_list = Append(@, st.ODE.y),
                        !.lambda_list = Append(@, st.ODE.t),
                        !.ODE = st.ODE]
    IN  [locals |-> BulkCheck(k1, st.heap[st.ODE.y][2]), heap |-> st.heap]

\* BulkBody with the check made on the state the pass starts from, before
\* it is recorded: check, record, step
BulkBody_CheckBeforeStep(k, res, addr, hp) ==
    LET k0 == BulkCheck(k, hp[k.ODE.y][2])
        st == RK45_step(k.ODE, res, addr, hp)
    IN  IF k0.pc = "break"
        THEN [locals |-> k0, heap |-> hp]
        ELSE [locals |-> [k0 EXCEPT !.vec_list = Append(@, k.ODE.y),
                                    !.lambda_list = Append(@, k.ODE.t),
                                    !.ODE = st.ODE],
              heap   |-> st.heap]

\* One pass of the loop body (lines 166-178): record, step, check
BulkBody(k, res, addr, hp) ==
    LET st == RK45_step(k.ODE, res, addr, hp)
        k1 == [k EXCEPT !.vec_list = Append(@, k.ODE.y),
                        !.lambda_list = Append(@, k.ODE.t),
                        !.ODE = st.ODE]
    IN  [locals |-> BulkCheck(k1, st.heap[st.ODE.y][2]), heap |-> st.heap]

\* BulkLoopCondition for a loop written as the generator's: while True
BulkLoopCondition_WhileTrue(k) == TRUE

\* The loop condition (line 166)
BulkLoopCondition(k) == k.ODE.t < k.end_lambda

BulkIter(c) ==
    /\ Call(c).kind = "bulk"
    /\ Call(c).pc = "loop"
    /\ BulkLoopCondition(Call(c))
    /\ Call(c).ODE.n < MaxSteps
    /\ \E res \in StepResults :
          /\ StepResultAt(Call(c).ODE, res)
          /\ LET b == BulkBody(Call(c), res, Addr(c, Call(c).ODE.n + 1), heap)
             IN  /\ calls' = [calls EXCEPT ![c] = b.locals]
                 /\ heap' = b.heap
          /\ path' = PathAfter(Call(c).ODE, res)
    /\ UNCHANGED <<M, schwarzschild_r, initial_vec, units_list>>

\* np.array(vec_list): the arrays the list refers to, as they are now
Deref(addrs, hp) == [i \in 1..Len(addrs) |-> hp[addrs[i]]]

\* BulkResult with the state the stepper ended on added as a last point
BulkResult_WithFinalState(k, hp) ==
    LET ls == Append(k.lambda_list, k.ODE.t)
        vs == Deref(Append(k.vec_list, k.ODE.y), hp)
    IN  IF k.return_cartesian THEN <<ls, S2C_8dim(vs)>> ELSE <<ls, vs>>

\* The value returned after the loop (lines 180-197)
BulkResult(k, hp) ==
    IF k.return_cartesian
    THEN <<k.lambda_list, S2C_8dim(Deref(k.vec_list, hp))>>
    ELSE <<k.lambda_list, Deref(k.vec_list, hp)>>

\* The loop is left, by its condition or by break, and the call returns
BulkReturn(c) ==
    /\ Call(c).kind = "bulk"
    /\ \/ Call(c).pc = "break"
       \/ Call(c).pc = "loop" /\ ~BulkLoopCondition(Call(c))
    /\ calls' = [calls EXCEPT ![c].result = BulkResult(Call(c), heap),
                              ![c].pc = "returned"]
    /\ units_list' = IF Call(c).return_cartesian THEN "cartesian" ELSE units_list
    /\ UNCHANGED <<M, schwarzschild_r, initial_vec, heap, path>>

(***************************************************************************)
(* calculate_trajectory_iterator                                           *)
(***************************************************************************)
\* StreamLocals with the stepper kept from the call before, when there is
\* one, instead of a new one on the initial state
StreamLocals_SharedStepper(start, stop, cart) ==
    [kind                 |-> "stream",
     start_lambda         |-> start,
     end_lambda           |-> StreamTBound,
     stop_on_singularity  |-> stop,
     return_cartesian     |-> cart,
     ODE                  |-> IF calls # <<>>
                              THEN [calls[Len(calls)].ODE EXCEPT !.t_bound = StreamTBound,
                                                                 !.status = "running"]
                              ELSE RK45(start, initial_vec, StreamTBound),
     singularity_reached  |-> FALSE,
     vec_list             |-> <<>>,
     lambda_list          |-> <<>>,
     pc                   |-> "created",
     warnings             |-> <<>>,
     result               |-> <<>>,
     yielded              |-> <<>>]

\* The call itself (lines 228-236, 259-270): the locals the generator
\* closes over; the generator's body has not started.
StreamLocals(start, stop, cart) ==
    [kind                 |-> "stream",
     start_lambda         |-> start,
     end_lambda           |-> StreamTBound,
     stop_on_singularity  |-> stop,
     return_cartesian     |-> cart,
     ODE                  |-> RK45(start, initial_vec, StreamTBound),
     singularity_reached  |-> FALSE,
     vec_list             |-> <<>>,
     lambda_list          |-> <<>>,
     pc                   |-> "created",
     warnings             |-> <<>>,
     result               |-> <<>>,
     yielded              |-> <<>>]

\* calculate_trajectory_iterator writing units_list for every call, in
\* the frame of the output: spherical again for a call that is not Cartesian
calculate_trajectory_iterator_UnitsOfOutput(start, stop, cart) ==
    /\ Len(calls) < MaxCalls
    /\ ~Busy
    /\ calls' = Append(calls, StreamLocals(start, stop, cart))
    /\ units_list' = IF cart THEN "cartesian" ELSE "spherical"
    /\ UNCHANGED <<M, schwarzschild_r, initial_vec, heap, path>>

\* calculate_trajectory_iterator is called and returns the generator (lines
\* 228-236, 259-270): units_list is written here, before any pull
calculate_trajectory_iterator(start, stop, cart) ==
    /\ Len(calls) < MaxCalls
    /\ ~Busy
    /\ calls' = Append(calls, StreamLocals(start, stop, cart))
    /\ units_list' = IF cart THEN "cartesian" ELSE units_list
    /\ UNCHANGED <<M, schwarzschild_r, initial_vec, heap, path>>

CallIterator(start, stop, cart) ==
    /\ Comparable(start, cart)
    /\ calculate_trajectory_iterator(start, stop, cart)

\* StreamYield without np.copy: temp is ODE.y itself, so the conversion is
\* written into the stepper's array, the velocity being converted from the
\* position already overwritten
StreamYield_NoCopy(k, hp) ==
    IF ~k.return_cartesian
    THEN [elem |-> <<k.ODE.t, hp[k.ODE.y]>>, heap |-> hp]
    ELSE LET y   == hp[k.ODE.y]
             pos == SphericalToCartesian_pos(<<y[2], y[3], y[4]>>)
             vel == SphericalToCartesian_vel(pos, <<y[6], y[7], y[8]>>)
             tmp == <<y[1], pos[1], pos[2], pos[3], y[5], vel[1], vel[2], vel[3]>>
         IN  [elem |-> <<k.ODE.t, tmp>>, heap |-> [hp EXCEPT ![k.ODE.y] = tmp]]

\* The yield (lines 241-247): the element handed to the consumer, and the
\* heap after it.  The Cartesian branch converts a copy of ODE.y.
StreamYield(k, hp) ==
    IF ~k.return_cartesian
    THEN [elem |-> <<k.ODE.t, hp[k.ODE.y]>>, heap |-> hp]
    ELSE [elem |-> <<k.ODE.t, S2C_vec(hp[k.ODE.y])>>, heap |-> hp]

\* StreamCheck with < for <=: a radius of exactly 1.001 r_s passes unnoticed
StreamCheck_StrictlyBelow(k, r) ==
    IF (~k.singularity_reached) /\ (r < Scr)
    THEN [k EXCEPT !.warnings = Append(@, k.ODE.n),
                   !.pc = IF k.stop_on_singularity THEN "ended" ELSE @,
                   !.singularity_reached = IF k.stop_on_singularity THEN @ ELSE TRUE]
    ELSE k

\* StreamCheck with the break taken whatever stop_on_singularity says
StreamCheck_AlwaysBreak(k, r) ==
    IF (~k.singularity_reached) /\ (r <= Scr)
    THEN [k EXCEPT !.warnings = Append(@, k.ODE.n),
                   !.pc = "ended"]
    ELSE k

\* The singularity check after a step (lines 249-257)
StreamCheck(k, r) ==
    IF (~k.singularity_reached) /\ (r <= Scr)
    THEN [k EXCEPT !.warnings = Append(@, k.ODE.n),
                   !.pc = IF k.stop_on_singularity THEN "ended" ELSE @,
                   !.singularity_reached = IF k.stop_on_singularity THEN @ ELSE TRUE]
    ELSE k

\* The generator started: it runs to its first yield (lines 240-247)
StreamStart(k, hp) ==
    LET y == StreamYield(k, hp)
    IN  [locals |-> [k EXCEPT !.yielded = Append(@, y.elem), !.pc = "yielded"],
         heap   |-> y.heap]

\* StreamResume with the latch set up anew at every resumption, as a local
\* of the generator's body would be
StreamResume_ResetsLatch(k, res, addr, hp) ==
    LET st == RK45_step(k.ODE, res, addr, hp)
        k1 == StreamCheck([k EXCEPT !.ODE = st.ODE, !.singularity_reached = FALSE],
                          st.heap[st.ODE.y][2])
    IN  IF k1.pc = "ended"
        THEN [locals |-> k1, heap |-> st.heap]
        ELSE StreamStart(k1, st.heap)

\* The generator resumed after a yield (lines 248-257, then 240-247): step,
\* check, and either leave the loop or yield the new point
StreamResume(k, res, addr, hp) ==
    LET st == RK45_step(k.ODE, res, addr, hp)
        k1 == StreamCheck([k EXCEPT !.ODE = st.ODE], st.heap[st.ODE.y][2])
    IN  IF k1.pc = "ended"
        THEN [locals |-> k1, heap |-> st.heap]
        ELSE StreamStart(k1, st.heap)

\* next() on the generator of call c.  (On an ended generator next() raises
\* StopIteration and changes nothing.)
Pull(c) ==
    /\ Call(c).kind = "stream"
    /\ ~Busy
    /\ \/ /\ Call(c).pc = "created"
          /\ LET s == StreamStart(Call(c), heap)
             IN  /\ calls' = [calls EXCEPT ![c] = s.locals]
                 /\ heap' = s.heap
          /\ path' = path
       \/ /\ Call(c).pc = "yielded"
          /\ Call(c).ODE.n < MaxSteps
          /\ \E res \in StepResults :
                /\ StepResultAt(Call(c).ODE, res)
                /\ LET s == StreamResume(Call(c), res, Addr(c, Call(c).ODE.n + 1), heap)
                   IN  /\ calls' = [calls EXCEPT ![c] = s.locals]
                       /\ heap' = s.heap
                /\ path' = PathAfter(Call(c).ODE, res)
    /\ UNCHANGED <<M, schwarzschild_r, initial_vec, units_list>>

(***************************************************************************)
(* The geometry after construction (lines 21-52), with no call made yet    *)
(***************************************************************************)
Init ==
    /\ M \in Masses
    /\ schwarzschild_r = schwarzschild_radius(M)
    /\ initial_vec = Addr(0, 0)
    /\ units_list = "spherical"
    /\ \E r0 \in Radii : heap = (Addr(0, 0) :> InitialVec(r0))
    /\ path = <<>>
    /\ calls = <<>>

Next ==
    \/ \E start \in StartLambdas, end \in EndLambdas, stop \in BOOLEAN, cart \in BOOLEAN :
          CallBulk(start, end, stop, cart)
    \/ \E c \in 1..Len(calls) : BulkIter(c)
    \/ \E c \in 1..Len(calls) : BulkReturn(c)
    \/ \E start \in StartLambdas, stop \in BOOLEAN, cart \in BOOLEAN :
          CallIterator(start, stop, cart)
    \/ \E c \in 1..Len(calls) : Pull(c)

Spec == Init /\ [][Next]_vars

(***************************************************************************)
(* What the claims speak of                                                *)
(***************************************************************************)
Calls   == 1..Len(calls)
Bulks   == {c \in Calls : Call(c).kind = "bulk"}
Streams == {c \in Calls : Call(c).kind = "stream"}
Returned(c) == Call(c).kind = "bulk" /\ Call(c).pc = "returned"

\* The state call c started from, and the state its n-th step produced
StateAt(c, n) == IF n = 0 THEN heap[initial_vec] ELSE heap[Addr(c, n)]
\* The steps of call c, taken so far, whose result is at or below 1.001 r_s
Crossings(c) == {n \in 1..Call(c).ODE.n : StateAt(c, n)[2] <= Scr}
Least(S) == CHOOSE n \in S : \A m \in S : n <= m
InitialRadius == heap[initial_vec][2]

IsPrefix(s, t) == Len(s) <= Len(t) /\ \A i \in 1..Len(s) : s[i] = t[i]
StrictlyIncreasing(s) == \A i \in 1..Len(s) : \A j \in 1..Len(s) : i < j => s[i] < s[j]

\* What the caller gets for the state y
Shown(c, y) == IF Call(c).return_cartesian THEN S2C_vec(y) ELSE y

(***************************************************************************)
(* C1.  In every call, bulk or streaming, with either value of             *)
(* stop_on_singularity and whatever the steps produce, the singularity     *)
(* warning is raised at most once: by the first step whose resulting       *)
(* radius is at or below 1.001 r_s, and by no later step.                  *)
(***************************************************************************)
C1_WarnOnceAtFirstCrossing ==
    \A c \in Calls :
        Call(c).warnings = IF Crossings(c) = {} THEN <<>> ELSE <<Least(Crossings(c))>>

\* A call that went on after its warning and came at or below the threshold
\* a second time
C1_Witness ==
    \E c \in Calls :
        /\ ~Call(c).stop_on_singularity
        /\ Cardinality(Crossings(c)) >= 2
        /\ Len(Call(c).warnings) = 1

(***************************************************************************)
(* C2.  With stop_on_singularity, calculate_trajectory leaves its loop at  *)
(* the first step whose resulting radius is at or below 1.001 r_s: no      *)
(* further step is taken, the state that step produced is not recorded,    *)
(* and the point recorded before that step is the last one returned.       *)
(***************************************************************************)
C2_StopAtFirstCrossing ==
    \A c \in Bulks :
        (Call(c).stop_on_singularity /\ Crossings(c) # {}) =>
            LET k == Call(c)
                n == k.ODE.n
            IN  /\ k.pc \in {"break", "returned"}
                /\ Crossings(c) = {n}
                /\ Len(k.vec_list) = n
                /\ Len(k.lambda_list) = n
                /\ k.vec_list[n] = (IF n = 1 THEN initial_vec ELSE Addr(c, n - 1))
                /\ k.pc = "returned" =>
                      /\ Len(k.result[1]) = n
                      /\ Len(k.result[2]) = n
                      /\ k.result[2][n] = Shown(c, StateAt(c, n - 1))
                      /\ k.result[1][n] < k.ODE.t

\* A stopping call that crossed, with lambda still below end_lambda, and
\* returned
C2_Witness ==
    \E c \in Bulks :
        /\ Call(c).stop_on_singularity
        /\ Call(c).pc = "returned"
        /\ Crossings(c) # {}
        /\ Call(c).ODE.t < Call(c).end_lambda

(***************************************************************************)
(* C3.  Whatever its arguments, calculate_trajectory returns a lambda      *)
(* sequence and a state-vector sequence of the same length, and the        *)
(* lambda sequence is strictly increasing.                                 *)
(***************************************************************************)
C3_SameLengthIncreasing ==
    \A c \in Bulks :
        Returned(c) =>
            /\ Len(Call(c).result[1]) = Len(Call(c).result[2])
            /\ StrictlyIncreasing(Call(c).result[1])

\* A returned Cartesian trajectory of two points
C3_Witness ==
    \E c \in Bulks :
        /\ Returned(c)
        /\ Call(c).return_cartesian
        /\ Len(Call(c).result[1]) = 2

(***************************************************************************)
(* C4.  As claimed: every calculate_trajectory call whose initial radius   *)
(* is above 1.001 r_s, for all start_lambda and end_lambda, returns a      *)
(* sequence that is not empty and whose first element is start_lambda      *)
(* paired with the initial state vector.                                   *)
(***************************************************************************)
C4_NeverEmpty_AsClaimed ==
    \A c \in Bulks :
        (Returned(c) /\ InitialRadius > Scr) =>
            /\ Len(Call(c).result[1]) >= 1
            /\ Len(Call(c).result[2]) >= 1
            /\ Call(c).result[1][1] = Call(c).start_lambda
            /\ Call(c).result[2][1] = heap[initial_vec]

(***************************************************************************)
(* C4, amended.  Every calculate_trajectory call whose initial radius is   *)
(* above 1.001 r_s and whose start_lambda is below its end_lambda returns  *)
(* a sequence that is not empty: its first element is start_lambda paired  *)
(* with the initial state vector, converted to Cartesian coordinates when  *)
(* return_cartesian is true.  With start_lambda >= end_lambda the loop     *)
(* body never runs and both returned sequences are empty.                  *)
(***************************************************************************)
C4_NeverEmptyWhenRangeNotEmpty ==
    \A c \in Bulks :
        (Returned(c) /\ InitialRadius > Scr) =>
            IF Call(c).start_lambda < Call(c).end_lambda
            THEN /\ Len(Call(c).result[1]) >= 1
                 /\ Len(Call(c).result[2]) >= 1
                 /\ Call(c).result[1][1] = Call(c).start_lambda
                 /\ Call(c).result[2][1] = Shown(c, heap[initial_vec])
            ELSE Call(c).result = << <<>>, <<>> >>

\* A returned Cartesian call over a range that is not empty, started above
\* the threshold
C4_Witness ==
    \E c \in Bulks :
        /\ Returned(c)
        /\ InitialRadius > Scr
        /\ Call(c).start_lambda < Call(c).end_lambda
        /\ Call(c).return_cartesian
        /\ Call(c).result[2][1] # heap[initial_vec]

(***************************************************************************)
(* C5.  As claimed: on a geometry whose initial radius is at or below      *)
(* 1.001 r_s, a calculate_trajectory call with stop_on_singularity false   *)
(* raises the warning exactly once, and steps and records until the        *)
(* stepper's lambda reaches end_lambda.  (Read for the calls that take a   *)
(* step at all: start_lambda below end_lambda.)                            *)
(***************************************************************************)
C5_LatchOnce_AsClaimed ==
    \A c \in Bulks :
        (/\ Returned(c)
         /\ ~Call(c).stop_on_singularity
         /\ InitialRadius <= Scr
         /\ Call(c).start_lambda < Call(c).end_lambda) =>
            /\ Len(Call(c).warnings) = 1
            /\ ~(Call(c).ODE.t < Call(c).end_lambda)
            /\ Len(Call(c).result[1]) = Call(c).ODE.n

(***************************************************************************)
(* C5, amended.  On a geometry whose initial radius is at or below         *)
(* 1.001 r_s, a calculate_trajectory call with stop_on_singularity false   *)
(* raises the warning exactly once if one of its steps produces a radius   *)
(* at or below 1.001 r_s, and not at all otherwise (the initial state is   *)
(* not checked, and a call with start_lambda >= end_lambda takes no step); *)
(* it never raises it once per step.  The call steps and records a point   *)
(* per step until the stepper's lambda is no longer below end_lambda.      *)
(***************************************************************************)
C5_LatchOnceIfAStepCrosses ==
    \A c \in Bulks :
        (Returned(c) /\ ~Call(c).stop_on_singularity /\ InitialRadius <= Scr) =>
            /\ Len(Call(c).warnings) = (IF Crossings(c) = {} THEN 0 ELSE 1)
            /\ ~(Call(c).ODE.t < Call(c).end_lambda)
            /\ Len(Call(c).result[1]) = Call(c).ODE.n

\* Started at the threshold, two steps both at or below it, one warning
C5_Witness ==
    \E c \in Bulks :
        /\ Returned(c)
        /\ ~Call(c).stop_on_singularity
        /\ InitialRadius <= Scr
        /\ Crossings(c) = {1, 2}
        /\ Len(Call(c).warnings) = 1

(***************************************************************************)
(* C6.  Two returned calculate_trajectory calls on the geometry with the   *)
(* same start_lambda, end_lambda and return_cartesian, a with              *)
(* stop_on_singularity and b without.                                      *)
(***************************************************************************)
StopPair(a, b) ==
    /\ Returned(a) /\ Returned(b)
    /\ Call(a).stop_on_singularity /\ ~Call(b).stop_on_singularity
    /\ Call(a).start_lambda = Call(b).start_lambda
    /\ Call(a).end_lambda = Call(b).end_lambda
    /\ Call(a).return_cartesian = Call(b).return_cartesian

\* The output of a is a prefix of the output of b and ends at the point
\* recorded just before a's crossing step
PrefixEndingBeforeCrossing(a, b) ==
    LET n == Least(Crossings(a))
    IN  /\ IsPrefix(Call(a).result[1], Call(b).result[1])
        /\ IsPrefix(Call(a).result[2], Call(b).result[2])
        /\ Len(Call(a).result[1]) = n
        /\ Call(a).result[2][n] = Shown(a, StateAt(a, n - 1))

(***************************************************************************)
(* C6.  As claimed: whenever the radius comes to or below 1.001 r_s during *)
(* the run, the output with stop_on_singularity is a prefix of, and        *)
(* strictly shorter than, the output without it, and ends at the point     *)
(* recorded just before the crossing step.                                 *)
(***************************************************************************)
C6_StrictPrefix_AsClaimed ==
    \A a \in Bulks : \A b \in Bulks :
        (StopPair(a, b) /\ Crossings(a) # {}) =>
            /\ PrefixEndingBeforeCrossing(a, b)
            /\ Len(Call(a).result[1]) < Len(Call(b).result[1])

(***************************************************************************)
(* C6, amended.  Whenever the radius comes to or below 1.001 r_s during    *)
(* the run, the output with stop_on_singularity is a prefix of the output  *)
(* without it and ends at the point recorded just before the crossing      *)
(* step; it is strictly shorter when the crossing step leaves the          *)
(* stepper's lambda below end_lambda, and the two outputs are equal when   *)
(* the crossing step is the one that reaches end_lambda.                   *)
(***************************************************************************)
C6_PrefixShorterUnlessLastStep ==
    \A a \in Bulks : \A b \in Bulks :
        (StopPair(a, b) /\ Crossings(a) # {}) =>
            /\ PrefixEndingBeforeCrossing(a, b)
            /\ IF Call(a).ODE.t < Call(a).end_lambda
               THEN Len(Call(a).result[1]) < Len(Call(b).result[1])
               ELSE Call(a).result = Call(b).result

\* The stopping call broke at its first step, the other went on to record
\* the crossing state
C6_Witness ==
    \E a \in Bulks : \E b \in Bulks :
        /\ StopPair(a, b)
        /\ Crossings(a) = {1}
        /\ Len(Call(a).result[1]) = 1
        /\ Len(Call(b).result[1]) = 2

(***************************************************************************)
(* C7.  A returned calculate_trajectory call b with end parameter E, and a *)
(* stream s with the same start_lambda, stop_on_singularity and            *)
(* return_cartesian, pulled until it ended or gave a lambda not below E.   *)
(***************************************************************************)
BulkStreamPair(b, s) ==
    /\ Returned(b)
    /\ Call(s).kind = "stream"
    /\ Call(b).start_lambda = Call(s).start_lambda
    /\ Call(b).stop_on_singularity = Call(s).stop_on_singularity
    /\ Call(b).return_cartesian = Call(s).return_cartesian
    /\ \/ Call(s).pc = "ended"
       \/ /\ Call(s).yielded # <<>>
          /\ Call(s).yielded[Len(Call(s).yielded)][1] >= Call(b).end_lambda

\* The returned pair of sequences as a sequence of pairs
Points(res) == [i \in 1..Len(res[1]) |-> <<res[1][i], res[2][i]>>]

\* The longest prefix of the elements ys whose lambdas are all below E
LongestPrefixBelow(ys, E) ==
    LET ok(j) == \A i \in 1..j : ys[i][1] < E
        k == CHOOSE j \in 0..Len(ys) :
                 ok(j) /\ \A m \in 0..Len(ys) : ok(m) => m <= j
    IN  SubSeq(ys, 1, k)

SameElements(b, s) ==
    /\ Len(Call(b).result[1]) = Len(Call(b).result[2])
    /\ Points(Call(b).result) = LongestPrefixBelow(Call(s).yielded, Call(b).end_lambda)

\* The warnings of call c raised by its steps 1..n
WarningsUpTo(c, n) ==
    LET early(w) == w <= n
    IN  SelectSeq(Call(c).warnings, early)

\* The last step of bulk call b was cut short by t_bound
CutShort(b) ==
    LET n == Call(b).ODE.n
    IN  /\ n >= 1
        /\ Call(b).ODE.t - Call(b).lambda_list[n] < path[n].dt

(***************************************************************************)
(* C7.  As claimed: the pairs returned by the bulk call equal, element for *)
(* element, the longest prefix of the stream whose lambdas are all below   *)
(* E, and both raise the warning at the same step.                         *)
(***************************************************************************)
C7_BulkIsStreamPrefix_AsClaimed ==
    \A b \in Bulks : \A s \in Streams :
        BulkStreamPair(b, s) =>
            /\ SameElements(b, s)
            /\ Call(b).warnings = WarningsUpTo(s, Call(b).ODE.n)

(***************************************************************************)
(* C7, amended.  The pairs returned by the bulk call equal, element for    *)
(* element, the longest prefix of the stream whose lambdas are all below   *)
(* E, and both raise the warning at the same step, except at a last step   *)
(* of the bulk call that the stepper cut short to end on E: that step and  *)
(* the stream's full step may end on different sides of 1.001 r_s, so one  *)
(* mode may warn (and stop) there and the other not.                       *)
(***************************************************************************)
C7_BulkIsStreamPrefix ==
    \A b \in Bulks : \A s \in Streams :
        BulkStreamPair(b, s) =>
            /\ SameElements(b, s)
            /\ IF CutShort(b)
               THEN WarningsUpTo(b, Call(b).ODE.n - 1) = WarningsUpTo(s, Call(b).ODE.n - 1)
               ELSE Call(b).warnings = WarningsUpTo(s, Call(b).ODE.n)

\* A bulk call of two points and a stream pulled past E, both having warned
C7_Witness ==
    \E b \in Bulks : \E s \in Streams :
        /\ BulkStreamPair(b, s)
        /\ Len(Call(b).result[1]) = 2
        /\ Len(Call(s).yielded) = 3
        /\ Call(b).warnings # <<>>
        /\ Call(b).warnings = Call(s).warnings

(***************************************************************************)
(* C8.  A stream with stop_on_singularity false never ends on its own:     *)
(* every pull gives another element, also after the radius has come to or  *)
(* below 1.001 r_s.  With stop_on_singularity the stream ends exactly on   *)
(* the pull whose step first produces a radius at or below the threshold,  *)
(* without yielding that state, and never before such a step.              *)
(***************************************************************************)
C8_StreamEndsOnlyByStop ==
    \A s \in Streams :
        LET k == Call(s)
            n == k.ODE.n
        IN  /\ k.pc = "created" => (n = 0 /\ k.yielded = <<>>)
            /\ k.pc = "yielded" =>
                  /\ Len(k.yielded) = n + 1
                  /\ k.yielded[n + 1] = <<k.ODE.t, Shown(s, StateAt(s, n))>>
            /\ ~k.stop_on_singularity => k.pc # "ended"
            /\ k.stop_on_singularity => (k.pc = "ended" <=> Crossings(s) # {})
            /\ k.pc = "ended" =>
                  /\ Crossings(s) = {n}
                  /\ Len(k.yielded) = n
                  /\ k.yielded[n][2] = Shown(s, StateAt(s, n - 1))
                  /\ k.yielded[n][1] < k.ODE.t

\* The second step crosses: one stream yields the crossing state and goes
\* on, the other, with stop_on_singularity, is ended by that step
C8_Witness ==
    \E s \in Streams : \E e \in Streams :
        /\ ~Call(s).stop_on_singularity
        /\ Crossings(s) = {2}
        /\ Len(Call(s).yielded) = 3
        /\ Call(e).stop_on_singularity
        /\ Call(e).pc = "ended"
        /\ Call(e).ODE.n = 2

(***************************************************************************)
(* C9.  Every call has its own stepper and its own latch and starts from   *)
(* the geometry's initial state: however pulls on several streams and bulk *)
(* calls are interleaved, a stream yields the sequence, and raises the     *)
(* warning, it would if it were consumed alone, and a bulk call returns    *)
(* the same whatever calls were made before it.                            *)
(***************************************************************************)
\* The run of a stepper alone on the geometry, by full steps: the state
\* after n steps and the lambda increments summed
RECURSIVE AloneState(_)
AloneState(n) ==
    IF n = 0 THEN heap[initial_vec]
    ELSE NextVec(AloneState(n - 1), path[n].dt, path[n].at[path[n].dt])
RECURSIVE AloneLambda(_, _)
AloneLambda(start, n) ==
    IF n = 0 THEN start ELSE AloneLambda(start, n - 1) + path[n].dt
AloneCrossings(n) == {m \in 1..n : AloneState(m)[2] <= Scr}

SameArguments(a, b) ==
    /\ Call(a).kind = Call(b).kind
    /\ Call(a).start_lambda = Call(b).start_lambda
    /\ Call(a).end_lambda = Call(b).end_lambda
    /\ Call(a).stop_on_singularity = Call(b).stop_on_singularity
    /\ Call(a).return_cartesian = Call(b).return_cartesian

C9_CallsIndependent ==
    /\ \A s \in Streams :
          /\ \A i \in 1..Len(Call(s).yielded) :
                Call(s).yielded[i] = << AloneLambda(Call(s).start_lambda, i - 1),
                                        Shown(s, AloneState(i - 1)) >>
          /\ Call(s).warnings =
                (IF AloneCrossings(Call(s).ODE.n) = {} THEN <<>>
                 ELSE <<Least(AloneCrossings(Call(s).ODE.n))>>)
    /\ \A a \in Bulks : \A b \in Bulks :
          (Returned(a) /\ Returned(b) /\ SameArguments(a, b)) =>
              /\ Call(a).result = Call(b).result
              /\ Call(a).warnings = Call(b).warnings
    /\ \A b \in Bulks :
          (Returned(b) /\ Call(b).result[1] # <<>>) =>
              /\ Call(b).result[1][1] = Call(b).start_lambda
              /\ Call(b).result[2][1] = Shown(b, AloneState(0))

\* Two streams with the same arguments, both under way: the earlier one
\* pulled twice, the later one three times, each having warned
C9_Witness ==
    \E s \in Streams : \E t \in Streams :
        /\ s < t
        /\ SameArguments(s, t)
        /\ Len(Call(s).yielded) = 2
        /\ Len(Call(t).yielded) = 3
        /\ Call(s).warnings # <<>>
        /\ Call(t).warnings # <<>>

(***************************************************************************)
(* C10.  No calculate_trajectory call and no pull on a stream changes the  *)
(* geometry: its mass, its Schwarzschild radius, and its initial state     *)
(* vector, neither the attribute nor the contents of the array.            *)
(***************************************************************************)
C10_GeometryUnchanged ==
    [][ /\ M' = M
        /\ schwarzschild_r' = schwarzschild_r
        /\ initial_vec' = initial_vec
        /\ heap'[initial_vec'] = heap[initial_vec] ]_vars

\* A Cartesian stream that has yielded after stepping, a bulk call that has
\* returned, and the initial array as constructed
C10_Witness ==
    \E s \in Streams : \E b \in Bulks :
        /\ Call(s).return_cartesian
        /\ Len(Call(s).yielded) >= 2
        /\ Returned(b)
        /\ Len(Call(b).result[1]) >= 1
        /\ \E r0 \in Radii : heap[initial_vec] = InitialVec(r0)

(***************************************************************************)
(* The geometry used in both frames: calls that differ in return_cartesian *)
(* (and in their mode), on the same start_lambda and stop_on_singularity,  *)
(* the bulk calls on the same end_lambda.                                  *)
(***************************************************************************)
SameInputs(start, stop) ==
    \A c \in 1..Len(calls) :
        Call(c).start_lambda = start /\ Call(c).stop_on_singularity = stop

SameEnd(end) ==
    \A c \in 1..Len(calls) : Call(c).kind = "bulk" => Call(c).end_lambda = end

FrameBulk(start, end, stop, cart) ==
    /\ SameInputs(start, stop)
    /\ SameEnd(end)
    /\ calculate_trajectory(start, end, stop, cart)

FrameIterator(start, stop, cart) ==
    /\ SameInputs(start, stop)
    /\ calculate_trajectory_iterator(start, stop, cart)

NextFrames ==
    \/ \E start \in StartLambdas, end \in EndLambdas, stop \in BOOLEAN, cart \in BOOLEAN :
          FrameBulk(start, end, stop, cart)
    \/ \E c \in 1..Len(calls) : BulkIter(c)
    \/ \E c \in 1..Len(calls) : BulkReturn(c)
    \/ \E start \in StartLambdas, stop \in BOOLEAN, cart \in BOOLEAN :
          FrameIterator(start, stop, cart)
    \/ \E c \in 1..Len(calls) : Pull(c)

SpecFrames == Init /\ [][NextFrames]_vars

(***************************************************************************)
(* C11.  Two calls of the same mode with the same inputs, a with           *)
(* return_cartesian and b without.                                         *)
(***************************************************************************)
FramePair(a, b) ==
    /\ Call(a).kind = Call(b).kind
    /\ Call(a).start_lambda = Call(b).start_lambda
    /\ Call(a).end_lambda = Call(b).end_lambda
    /\ Call(a).stop_on_singularity = Call(b).stop_on_singularity
    /\ Call(a).return_cartesian /\ ~Call(b).return_cartesian

\* Components 0 (t) and 4 (dt/dlambda) of the vectors of xs and ys agree
SameTimes(xs, ys) ==
    \A i \in 1..Len(xs) : i <= Len(ys) => (xs[i][1] = ys[i][1] /\ xs[i][5] = ys[i][5])

Min(m, n) == IF m <= n THEN m ELSE n

\* The vectors of the elements a stream has yielded
YieldedVecs(s) == [i \in 1..Len(Call(s).yielded) |-> Call(s).yielded[i][2]]
YieldedLambdas(s) == [i \in 1..Len(Call(s).yielded) |-> Call(s).yielded[i][1]]

(***************************************************************************)
(* C11.  Requesting Cartesian output changes only the position and the     *)
(* velocity of the states handed out.  Two returned bulk calls on the same *)
(* inputs, one Cartesian and one not, return the same lambda sequence, the *)
(* same number of points, raise the same warning and stop at the same      *)
(* lambda, and components 0 and 4 of their states agree.  Two streams on   *)
(* the same inputs agree in the same way on the elements both have given,  *)
(* one has ended after n steps exactly if the other has, and after the     *)
(* same number of steps the steppers hold the same state: the conversion   *)
(* was made on a copy.                                                     *)
(***************************************************************************)
C11_CartesianChangesOnlyPositionVelocity ==
    \A a \in Calls : \A b \in Calls :
        FramePair(a, b) =>
            /\ (Returned(a) /\ Returned(b)) =>
                  /\ Call(a).result[1] = Call(b).result[1]
                  /\ Len(Call(a).result[2]) = Len(Call(b).result[2])
                  /\ SameTimes(Call(a).result[2], Call(b).result[2])
                  /\ Call(a).result[2] = S2C_8dim(Call(b).result[2])
                  /\ Call(a).warnings = Call(b).warnings
                  /\ Call(a).ODE.t = Call(b).ODE.t
                  /\ Call(a).ODE.n = Call(b).ODE.n
            /\ (Call(a).kind = "stream") =>
                  LET n == Min(Call(a).ODE.n, Call(b).ODE.n)
                      m == Min(Len(Call(a).yielded), Len(Call(b).yielded))
                  IN  /\ SubSeq(YieldedLambdas(a), 1, m) = SubSeq(YieldedLambdas(b), 1, m)
                      /\ SameTimes(YieldedVecs(a), YieldedVecs(b))
                      /\ SubSeq(YieldedVecs(a), 1, m) = S2C_8dim(SubSeq(YieldedVecs(b), 1, m))
                      /\ WarningsUpTo(a, n) = WarningsUpTo(b, n)
                      /\ Call(a).ODE.n = Call(b).ODE.n =>
                            /\ Call(a).pc = "ended" <=> Call(b).pc = "ended"
                            /\ Call(a).ODE.t = Call(b).ODE.t
                            /\ heap[Call(a).ODE.y] = heap[Call(b).ODE.y]

\* A Cartesian stream and a spherical one on the same inputs, both two
\* steps on and both having warned, whose elements differ as vectors
C11_Witness ==
    \E a \in Streams : \E b \in Streams :
        /\ FramePair(a, b)
        /\ Len(Call(a).yielded) = 3
        /\ Len(Call(b).yielded) = 3
        /\ Call(a).warnings # <<>>
        /\ \A i \in 1..3 : Call(a).yielded[i][2] # Call(b).yielded[i][2]

(***************************************************************************)
(* Steps that fail.  ODE.step() may raise instead of returning (the        *)
(* geodesic field raises, or the solver refuses the step).  Neither method *)
(* has a try or an except: the exception leaves the loop, and the call or  *)
(* the pull with it.  pc = "raised" is a call the exception has left; a    *)
(* generator an exception has left is finished.                            *)
(***************************************************************************)
\* ODE.step() raising: the stepper has not advanced; status "failed" marks
\* the stepper whose step raised
RK45_step_raises(ode) == [ode EXCEPT !.status = "failed"]

\* BulkRaise with the exception caught and what was recorded returned
BulkRaise_ReturnsPartial(k, hp) ==
    LET k1 == [k EXCEPT !.vec_list = Append(@, k.ODE.y),
                        !.lambda_list = Append(@, k.ODE.t),
                        !.ODE = RK45_step_raises(k.ODE)]
    IN  [k1 EXCEPT !.result = BulkResult(k1, hp), !.pc = "returned"]

\* One pass of the loop body whose step raises (lines 167-169): the point
\* is recorded, the exception leaves the call, nothing is returned
BulkRaise(k, hp) ==
    [k EXCEPT !.vec_list = Append(@, k.ODE.y),
              !.lambda_list = Append(@, k.ODE.t),
              !.ODE = RK45_step_raises(k.ODE),
              !.pc = "raised"]

BulkIterRaises(c) ==
    /\ Call(c).kind = "bulk"
    /\ Call(c).pc = "loop"
    /\ BulkLoopCondition(Call(c))
    /\ Call(c).ODE.n < MaxSteps
    /\ calls' = [calls EXCEPT ![c] = BulkRaise(Call(c), heap)]
    /\ UNCHANGED <<M, schwarzschild_r, initial_vec, units_list, heap, path>>

\* The generator resumed after a yield, its step raising (line 248): the
\* exception leaves the pull and the generator is finished
StreamRaise(k) ==
    [k EXCEPT !.ODE = RK45_step_raises(k.ODE), !.pc = "raised"]

PullRaises(c) ==
    /\ Call(c).kind = "stream"
    /\ ~Busy
    /\ Call(c).pc = "yielded"
    /\ Call(c).ODE.n < MaxSteps
    /\ calls' = [calls EXCEPT ![c] = StreamRaise(Call(c))]
    /\ UNCHANGED <<M, schwarzschild_r, initial_vec, units_list, heap, path>>

NextFailing ==
    \/ \E start \in StartLambdas, end \in EndLambdas, stop \in BOOLEAN, cart \in BOOLEAN :
          CallBulk(start, end, stop, cart)
    \/ \E c \in 1..Len(calls) : BulkIter(c)
    \/ \E c \in 1..Len(calls) : BulkIterRaises(c)
    \/ \E c \in 1..Len(calls) : BulkReturn(c)
    \/ \E start \in StartLambdas, stop \in BOOLEAN, cart \in BOOLEAN :
          CallIterator(start, stop, cart)
    \/ \E c \in 1..Len(calls) : Pull(c)
    \/ \E c \in 1..Len(calls) : PullRaises(c)

SpecFailing == Init /\ [][NextFailing]_vars

(***************************************************************************)
(* C12.  A failure raised by the stepper's step() is neither caught nor    *)
(* retried.  The step that raises leaves the call: a bulk call returns     *)
(* nothing, not the points recorded so far, and writes no units_list; a    *)
(* stream gives no element to the pull whose step raised.  A call the      *)
(* exception has left never changes again: no further step, no further     *)
(* element, no warning.                                                    *)
(***************************************************************************)
C12_FailurePropagates ==
    [][ \A c \in DOMAIN calls' :
          /\ calls'[c].ODE.status = "failed" =>
                /\ c \in DOMAIN calls
                /\ calls'[c].pc = "raised"
                /\ calls'[c].result = <<>>
                /\ Call(c).pc # "raised" =>
                      /\ Call(c).pc = (IF Call(c).kind = "bulk" THEN "loop" ELSE "yielded")
                      /\ calls'[c].yielded = Call(c).yielded
                      /\ calls'[c].warnings = Call(c).warnings
                      /\ calls'[c].ODE.n = Call(c).ODE.n
                      /\ calls'[c].ODE.t = Call(c).ODE.t
                      /\ calls'[c].ODE.y = Call(c).ODE.y
                      /\ units_list' = units_list
                      /\ heap' = heap
          /\ (c \in DOMAIN calls /\ Call(c).pc = "raised") => calls'[c] = Call(c) ]_vars

\* A bulk call that had recorded a point when its second step raised, and
\* a stream that had given two elements when its step raised
C12_Witness ==
    \E b \in Bulks : \E s \in Streams :
        /\ Call(b).pc = "raised"
        /\ Call(b).ODE.n = 1
        /\ Len(Call(b).vec_list) = 2
        /\ Call(b).result = <<>>
        /\ Call(s).pc = "raised"
        /\ Len(Call(s).yielded) = 2

(***************************************************************************)
(* C13.  Streaming is demand-driven, one step per pull.  The call          *)
(* calculate_trajectory_iterator takes no step and yields nothing.  The    *)
(* first pull yields start_lambda with the initial state and takes no      *)
(* step.  Every later pull resumes where the last yield left the           *)
(* generator, with the stepper and the latch as they were: it takes        *)
(* exactly one step, checks the state that step produced against the       *)
(* latch, and then either ends the stream or yields that state.  So a      *)
(* stream suspended at its k-th element has taken exactly k-1 steps.       *)
(***************************************************************************)
C13_OneStepPerPull ==
    [][ \A s \in DOMAIN calls' :
          calls'[s].kind = "stream" =>
            LET k2 == calls'[s]
                y2 == <<k2.ODE.t, IF k2.return_cartesian
                                  THEN S2C_vec(heap'[k2.ODE.y]) ELSE heap'[k2.ODE.y]>>
            IN
            /\ k2.pc = "yielded" => Len(k2.yielded) = k2.ODE.n + 1
            /\ s \notin DOMAIN calls =>
                  /\ k2.pc = "created"
                  /\ k2.ODE = RK45(k2.start_lambda, initial_vec, StreamTBound)
                  /\ k2.yielded = <<>>
                  /\ heap' = heap /\ path' = path
            /\ (s \in DOMAIN calls /\ k2 # Call(s)) =>
                  IF Call(s).pc = "created"
                  THEN /\ k2.ODE = Call(s).ODE
                       /\ k2.pc = "yielded"
                       /\ k2.yielded = << <<k2.start_lambda, Shown(s, heap[initial_vec])>> >>
                       /\ k2.warnings = <<>>
                       /\ heap' = heap /\ path' = path
                  ELSE /\ Call(s).pc = "yielded"
                       /\ k2.ODE.n = Call(s).ODE.n + 1
                       /\ k2.ODE.t > Call(s).ODE.t
                       /\ heap'[k2.ODE.y] = NextVec(heap[Call(s).ODE.y],
                                                    k2.ODE.t - Call(s).ODE.t,
                                                    heap'[k2.ODE.y][2])
                       /\ LET warn == (~Call(s).singularity_reached)
                                          /\ heap'[k2.ODE.y][2] <= Scr
                          IN  /\ k2.warnings = IF warn THEN Append(Call(s).warnings, k2.ODE.n)
                                               ELSE Call(s).warnings
                              /\ k2.singularity_reached =
                                    (Call(s).singularity_reached
                                        \/ (warn /\ ~k2.stop_on_singularity))
                              /\ k2.pc = IF warn /\ k2.stop_on_singularity
                                         THEN "ended" ELSE "yielded"
                       /\ k2.yielded = IF k2.pc = "ended" THEN Call(s).yielded
                                       ELSE Append(Call(s).yielded, y2) ]_vars

\* A stream under way past its latch: created, pulled three times, the
\* first step having set the latch and the second left it set
C13_Witness ==
    \E s \in Streams :
        /\ ~Call(s).stop_on_singularity
        /\ Len(Call(s).yielded) = 3
        /\ Call(s).ODE.n = 2
        /\ Call(s).warnings = <<1>>
        /\ Crossings(s) = {1}

(***************************************************************************)
(* C14.  In calculate_trajectory a point is recorded only while the        *)
(* stepper's lambda is below end_lambda, and before the step is taken.     *)
(* Every lambda recorded, and so every lambda returned, lies in            *)
(* [start_lambda, end_lambda); the points recorded are as many as the      *)
(* steps taken, the n-th being the state the n-th step started from; and   *)
(* the state the last step produced, at or beyond end_lambda or not, is    *)
(* not part of the output.                                                 *)
(***************************************************************************)
C14_RecordedBelowEnd ==
    \A c \in Bulks :
        LET k == Call(c)
            n == k.ODE.n
        IN  /\ Len(k.lambda_list) = n
            /\ Len(k.vec_list) = n
            /\ \A i \in 1..n :
                  /\ k.start_lambda <= k.lambda_list[i]
                  /\ k.lambda_list[i] < k.end_lambda
                  /\ k.vec_list[i] = (IF i = 1 THEN initial_vec ELSE Addr(c, i - 1))
            /\ \A i \in 1..n : k.vec_list[i] # k.ODE.y
            /\ Returned(c) =>
                  /\ k.result[1] = k.lambda_list
                  /\ Len(k.result[2]) = n
                  /\ \A i \in 1..n : k.result[2][i] = Shown(c, StateAt(c, i - 1))
                  /\ \A i \in 1..n : k.result[2][i][1] # StateAt(c, n)[1]

\* A call that ran to the end of its range in two steps, the second cut
\* short to end on end_lambda, and returned two points
C14_Witness ==
    \E c \in Bulks :
        /\ Returned(c)
        /\ Call(c).ODE.n = 2
        /\ Call(c).ODE.t = Call(c).end_lambda
        /\ CutShort(c)
        /\ Len(Call(c).result[1]) = 2

(***************************************************************************)
(* Progress.  A call of calculate_trajectory, once made, runs: its loop    *)
(* body is executed while the loop condition holds, and the call returns   *)
(* when the loop is left.  Every step of the stepper returns, advances     *)
(* lambda, and does not pass t_bound (RK45_step).                          *)
(***************************************************************************)
SpecLive ==
    /\ Spec
    /\ WF_vars(\E c \in 1..Len(calls) : BulkIter(c))
    /\ WF_vars(\E c \in 1..Len(calls) : BulkReturn(c))

\* The last step of bulk call k (the c-th call) produced a radius at or
\* below 1.001 r_s
LastStepCrossed(c) == Call(c).ODE.n >= 1 /\ Call(c).ODE.n \in Crossings(c)

(***************************************************************************)
(* C15.  With a stepper that advances lambda at every step and reaches its *)
(* bound after finitely many, every calculate_trajectory call made         *)
(* eventually returns.  It leaves its loop in exactly one of two ways: by  *)
(* the break, and then stop_on_singularity is true and the step just taken *)
(* produced a radius at or below 1.001 r_s; or by the loop condition, and  *)
(* then the stepper's lambda is not below end_lambda and no such step with *)
(* stop_on_singularity was taken.                                          *)
(***************************************************************************)
C15_BulkTerminates ==
    /\ (\E c \in Bulks : ~Returned(c)) ~> (\A c \in Bulks : Returned(c))
    /\ [][ \A c \in DOMAIN calls :
              (Call(c).kind = "bulk" /\ Call(c).pc # "returned"
                                     /\ calls'[c].pc = "returned") =>
                  LET byBreak == Call(c).stop_on_singularity /\ LastStepCrossed(c)
                  IN  /\ Call(c).pc \in {"loop", "break"}
                      /\ Call(c).pc = "break" <=> byBreak
                      /\ Call(c).pc = "loop" =>
                            ~(Call(c).ODE.t < Call(c).end_lambda) ]_vars

\* Both ways out taken: one call left by the break with lambda still below
\* end_lambda, another ran to end_lambda
C15_Witness ==
    \E a \in Bulks : \E b \in Bulks :
        /\ Returned(a) /\ Returned(b)
        /\ Call(a).stop_on_singularity /\ LastStepCrossed(a)
        /\ Call(a).ODE.t < Call(a).end_lambda
        /\ Call(b).ODE.n = 2
        /\ ~(Call(b).ODE.t < Call(b).end_lambda)

(***************************************************************************)
(* C16.  The singularity check is applied to the states the steps produce  *)
(* and never to the initial state.  No warning is raised for step 0, and   *)
(* none before the first step.  Also on a geometry whose initial radius is *)
(* at or below 1.001 r_s the initial point is handed out: a stream's first *)
(* element is start_lambda with the initial state, and a bulk call with    *)
(* start_lambda below end_lambda returns it as its first point; with       *)
(* stop_on_singularity, when the first step stays at or below the          *)
(* threshold, the bulk output is that one point and the stream ends after  *)
(* that one element.                                                       *)
(***************************************************************************)
C16_InitialStateNotChecked ==
    \A c \in Calls :
        LET k == Call(c)
        IN  /\ \A i \in 1..Len(k.warnings) : k.warnings[i] >= 1
            /\ k.ODE.n = 0 => (k.warnings = <<>> /\ k.pc \notin {"break", "ended"})
            /\ InitialRadius <= Scr =>
                  /\ (k.kind = "stream" /\ k.yielded # <<>>) =>
                        k.yielded[1] = <<k.start_lambda, Shown(c, heap[initial_vec])>>
                  /\ (k.kind = "stream" /\ k.stop_on_singularity /\ 1 \in Crossings(c)) =>
                        (k.pc = "ended" /\ Len(k.yielded) = 1)
                  /\ (Returned(c) /\ k.start_lambda < k.end_lambda) =>
                        /\ Len(k.result[1]) >= 1
                        /\ k.result[1][1] = k.start_lambda
                        /\ k.result[2][1] = Shown(c, heap[initial_vec])
                        /\ (k.stop_on_singularity /\ 1 \in Crossings(c)) =>
                              (Len(k.result[1]) = 1 /\ Len(k.result[2]) = 1)

\* Started at the threshold with stop_on_singularity: a bulk call whose
\* first step stayed there returned the initial point alone, and a stream
\* gave it and was ended by its first step
C16_Witness ==
    \E b \in Bulks : \E s \in Streams :
        /\ InitialRadius <= Scr
        /\ Returned(b)
        /\ Call(b).stop_on_singularity
        /\ 1 \in Crossings(b)
        /\ Len(Call(b).result[1]) = 1
        /\ Call(s).pc = "ended"
        /\ Len(Call(s).yielded) = 1

(***************************************************************************)
(* The geodesic field f_vec (lines 109-122), the function the stepper      *)
(* integrates.  The stepper evaluates it on arrays it holds, first of all  *)
(* on y0, which is self.initial_vec itself.                                *)
(*                                                                         *)
(* The Christoffel symbols come from schwarzschild_utils.christoffels:     *)
(* the model keeps each entry as the symbol of its value at (r, theta, M), *)
(* symmetric in its lower indices.  A derivative component is the sum of   *)
(* its terms, each an integer factor times one Christoffel entry.          *)
(***************************************************************************)
\* schwarzschild_utils.christoffels(r, theta, M): the 4x4x4 tensor
christoffels(r, theta, m) ==
    [i \in 0..3, j \in 0..3, k \in 0..3 |->
        <<"Gamma", i, IF j <= k THEN j ELSE k, IF j <= k THEN k ELSE j, r, theta, m>>]

\* The term  c * g * x  of a sum: the integer factor c * x on the entry g
Term(c, g, x) == [factor |-> c * x, chl |-> g]

\* f_vec with vals being vec itself instead of a new array: the first four
\* components of the result are written into the input
f_vec_InPlace(ld, vec, hp) ==
    LET v   == hp[vec]
        chl == christoffels(v[2], v[3], M)
        vals == << v[5], v[6], v[7], v[8],
                   << Term(-2, chl[0, 0, 1], v[5] * v[6]) >>,
                   << Term(-1, chl[1, 0, 0], v[5] * v[5]),
                      Term(-1, chl[1, 1, 1], v[6] * v[6]),
                      Term(-1, chl[1, 2, 2], v[7] * v[7]),
                      Term(-1, chl[1, 3, 3], v[8] * v[8]) >>,
                   << Term(-2, chl[2, 2, 1], v[7] * v[6]),
                      Term(-1, chl[2, 3, 3], v[8] * v[8]) >>,
                   << Term(-2, chl[3, 3, 1], v[8] * v[6]),
                      Term(-2, chl[3, 3, 2], v[8] * v[7]) >> >>
    IN  [vals |-> vals,
         heap |-> [hp EXCEPT ![vec] = <<v[5], v[6], v[7], v[8], v[5], v[6], v[7], v[8]>>]]

\* f_vec(self, ld, vec): vals is a new array (line 110); ld is not read.
\* The result is the derivative vector and the heap after the evaluation.
f_vec(ld, vec, hp) ==
    LET v   == hp[vec]
        chl == christoffels(v[2], v[3], M)
        vals == << v[5], v[6], v[7], v[8],
                   << Term(-2, chl[0, 0, 1], v[5] * v[6]) >>,
                   << Term(-1, chl[1, 0, 0], v[5] * v[5]),
                      Term(-1, chl[1, 1, 1], v[6] * v[6]),
                      Term(-1, chl[1, 2, 2], v[7] * v[7]),
                      Term(-1, chl[1, 3, 3], v[8] * v[8]) >>,
                   << Term(-2, chl[2, 2, 1], v[7] * v[6]),
                      Term(-1, chl[2, 3, 3], v[8] * v[8]) >>,
                   << Term(-2, chl[3, 3, 1], v[8] * v[6]),
                      Term(-2, chl[3, 3, 2], v[8] * v[7]) >> >>
    IN  [vals |-> vals, heap |-> hp]

\* The states the field is evaluated on
FieldStates ==
    { <<0, r, th, ph, dt, dr, dth, dph>> :
        r \in Radii, th \in {1, 3}, ph \in {0, 1},
        dt \in {1, 2}, dr \in {-1, 0, 1}, dth \in {0, 1}, dph \in {0, 1} }

\* The lambdas the stepper passes to fun
FieldLambdas == {0, 1, 3}

InitField ==
    /\ M \in Masses
    /\ schwarzschild_r = schwarzschild_radius(M)
    /\ initial_vec = Addr(0, 0)
    /\ units_list = "spherical"
    /\ \E y \in FieldStates : heap = (Addr(0, 0) :> y)
    /\ path = <<>>
    /\ calls = <<>>

\* One evaluation self.f_vec(ld, vec) on the array at initial_vec; calls
\* keeps the evaluations made: the arguments and the value returned
EvalField(ld) ==
    /\ Len(calls) < MaxCalls
    /\ LET f == f_vec(ld, initial_vec, heap)
       IN  /\ calls' = Append(calls, [kind |-> "f_vec", ld |-> ld,
                                      vec |-> initial_vec, vals |-> f.vals])
           /\ heap' = f.heap
    /\ UNCHANGED <<M, schwarzschild_r, initial_vec, units_list, path>>

NextField == \E ld \in FieldLambdas : EvalField(ld)

SpecField == InitField /\ [][NextField]_vars

(***************************************************************************)
(* C17.  f_vec is a pure function of the state and the mass.  An           *)
(* evaluation changes neither the array it is given nor any attribute of   *)
(* the geometry; components 0-3 of its result are components 4-7 of the    *)
(* state; and any two evaluations on the same state, whatever lambda they  *)
(* are given, return the same derivative vector.                           *)
(***************************************************************************)
C17_FieldIsPure ==
    [][ /\ heap' = heap
        /\ M' = M
        /\ schwarzschild_r' = schwarzschild_r
        /\ initial_vec' = initial_vec
        /\ units_list' = units_list
        /\ \A a \in DOMAIN calls' :
              /\ \A i \in 1..4 : calls'[a].vals[i] = heap[calls'[a].vec][i + 4]
              /\ \A b \in DOMAIN calls' :
                    calls'[a].vec = calls'[b].vec => calls'[a].vals = calls'[b].vals ]_vars

\* Two evaluations made at different lambdas on a state that is not at
\* rest in r, theta or phi
C17_Witness ==
    /\ Len(calls) = 2
    /\ calls[1].kind = "f_vec" /\ calls[2].kind = "f_vec"
    /\ calls[1].ld # calls[2].ld
    /\ calls[1].vals = calls[2].vals
    /\ \A i \in 6..8 : heap[initial_vec][i] # 0

(***************************************************************************)
(* C18.  units_list is written only by calls with return_cartesian: by     *)
(* calculate_trajectory_iterator at the call, before any pull, and by      *)
(* calculate_trajectory when it returns.  A call without return_cartesian  *)
(* never writes it.  So from the first Cartesian call on, units_list holds *)
(* the Cartesian units, also while and after later calls hand out          *)
(* spherical states; before it, the spherical units the class was given.   *)
(***************************************************************************)
\* The calls that have written units_list
CartesianCallsMade ==
    {c \in Calls : /\ Call(c).return_cartesian
                   /\ Call(c).kind = "bulk" => Call(c).pc = "returned"}

C18_UnitsListSticksToCartesian ==
    units_list = IF CartesianCallsMade # {} THEN "cartesian" ELSE "spherical"

\* After a Cartesian stream was made and not yet pulled, a call without
\* return_cartesian returned spherical states; units_list says Cartesian
C18_Witness ==
    \E s \in Streams : \E b \in Bulks :
        /\ s < b
        /\ Call(s).return_cartesian
        /\ Call(s).pc = "created"
        /\ ~Call(b).return_cartesian
        /\ Returned(b)
        /\ Len(Call(b).result[2]) >= 1
        /\ Call(b).result[2][1] = heap[initial_vec]
        /\ units_list = "cartesian"

====
